---- MODULE Spec2Model ----
(***************************************************************************)
(* Model of the Maya rig tools: MayaRigHandler                             *)
(* (modules/rig/character_rig_handler.py) and AnimOpsExportPrep            *)
(* (modules/anim/AnimExporter.py).                                         *)
(*                                                                         *)
(* The host scene is a table of nodes identified by their name (a string): *)
(* kind[n] is the node type, parent[n] the DAG parent (World for a         *)
(* top-level or non-DAG node) and conn[n] the list cmds.listConnections(n) *)
(* returns.  Python's None/[] results are the empty sequence.              *)
(***************************************************************************)
EXTENDS Integers, Sequences, FiniteSets, TLC

VARIABLES
    tool,        \* which tool object was constructed: "rig" or "anim"
    kind,        \* scene: node name -> node type; DOMAIN kind = existing nodes
    parent,      \* scene: node name -> parent node name, or World
    conn,        \* scene: node name -> result list of listConnections
    namespaces,  \* scene: result list of namespaceInfo(lon=True)
    selection,   \* host active selection (set of node names)
    rigs,        \* self.rigs
    skl_sel,     \* self.skl_sel
    geo_sel,     \* self.geo_sel
    final_sel,   \* self.final_sel
    calls,       \* host/GUI calls issued by the last tool operation, in order
    last         \* the last step taken: [op, arg, ret]

vars == <<tool, kind, parent, conn, namespaces, selection,
          rigs, skl_sel, geo_sel, final_sel, calls, last>>

scene == <<kind, parent, conn, namespaces>>
fields == <<rigs, skl_sel, geo_sel, final_sel>>

(***************************************************************************)
(* Bounds of the model.                                                    *)
(***************************************************************************)
MaxHostNodes == 3      \* nodes the user adds to a rig by hand
MaxConn == 3           \* connections the user makes by hand, in total
MaxT == 3              \* transforms in a scene of the rig discovery runs
MaxEnum == 3           \* scenes up to this many transforms are listed in every order
MaxNs == 2             \* namespaces the user adds in the namespace runs

World == "|"
None == <<>>

(***************************************************************************)
(* Generic helpers.                                                        *)
(***************************************************************************)
Range(s) == {s[i] : i \in 1..Len(s)}

NoDup(s) == \A i, j \in 1..Len(s) : i # j => s[i] # s[j]

Reverse(s) == [i \in 1..Len(s) |-> s[Len(s) + 1 - i]]

\* every enumeration order of a finite set
RECURSIVE Perms(_)
Perms(S) ==
    IF S = {} THEN {<<>>}
    ELSE UNION {{<<x>> \o p : p \in Perms(S \ {x})} : x \in S}

\* one enumeration order of a finite set
RECURSIVE OneOrder(_)
OneOrder(S) ==
    IF S = {} THEN <<>>
    ELSE LET x == CHOOSE y \in S : TRUE IN <<x>> \o OneOrder(S \ {x})

\* str.endswith(suffix)
EndsWith(s, suffix) ==
    /\ Len(s) >= Len(suffix)
    /\ SubSeq(s, Len(s) - Len(suffix) + 1, Len(s)) = suffix

Call(cmd, arg) == [cmd |-> cmd, arg |-> arg]

(***************************************************************************)
(* Host scene queries (maya.cmds).                                         *)
(***************************************************************************)
objExists(n) == n \in DOMAIN kind

\* cmds.ls(type="transform"): joints derive from transform
Transforms == {n \in DOMAIN kind : kind[n] \in {"transform", "joint"}}

RECURSIVE IsDescendant(_, _)
IsDescendant(n, top) ==
    /\ parent[n] # World
    /\ \/ parent[n] = top
       \/ IsDescendant(parent[n], top)

\* cmds.listRelatives(top, allDescendents=True, type=t), as a set
Descendants(top, t) == {n \in DOMAIN kind : kind[n] = t /\ IsDescendant(n, top)}

\* cmds.listRelatives(top, children=True, type=t), as a set
Children(top, t) == {n \in DOMAIN kind : kind[n] = t /\ parent[n] = top}

\* cmds.listRelatives(n, parent=True, type="joint") is non-empty
HasJointParent(n) == parent[n] # World /\ kind[parent[n]] = "joint"

\* cmds.listConnections(n, type="joint")
JointConnections(n) == SelectSeq(conn[n], LAMBDA c : kind[c] = "joint")

\* the lists cmds.ls(type="transform") can return for the transforms S: the
\* host's order is not the tools' to choose
LsOrders(S) == IF Cardinality(S) <= MaxEnum THEN Perms(S) ELSE {OneOrder(S)}

\* cmds.createNode("transform", name=n): the host renames on a name clash
NewName(n) == IF objExists(n) THEN n \o "1" ELSE n

(***************************************************************************)
(* Rig discovery: _find_rigs                                               *)
(***************************************************************************)
\* the filter without its third case
IsRigName_NoUpper(transform) ==
    \/ transform = "rig"
    \/ EndsWith(transform, "_rig")

\* MayaRigHandler._find_rigs, the filter of the list comprehension
IsRigName(transform) ==
    \/ transform = "rig"
    \/ EndsWith(transform, "_rig")
    \/ transform = "RIG"

\* AnimOpsExportPrep._find_rigs, the filter of the list comprehension
AnimIsRigName(transform) ==
    \/ transform = "rig"
    \/ EndsWith(transform, "_rig")

\* _find_rigs of the constructed tool over the list cmds.ls returned
FindRigsIn(all_transforms) ==
    IF tool = "rig"
    THEN SelectSeq(all_transforms, IsRigName)
    ELSE SelectSeq(all_transforms, AnimIsRigName)

\* the dialog of _refresh_rig_list / _refresh_create_rig_list on an empty list
RefreshCalls(found) ==
    <<Call("ls", <<"transform">>)>> \o
    (IF found = <<>> THEN <<Call("information", <<"No rigs found">>)>> ELSE <<>>)

\* the Refresh button: _refresh_rig_list
RefreshRigList ==
    \E all_transforms \in LsOrders(Transforms) :
        /\ rigs' = FindRigsIn(all_transforms)
        /\ calls' = RefreshCalls(rigs')
        /\ last' = [op |-> "refresh_rig_list", arg |-> all_transforms, ret |-> "None"]
        /\ UNCHANGED <<tool, scene, selection, skl_sel, geo_sel, final_sel>>

(***************************************************************************)
(* Namespace normalisation: _manage_namespaces                             *)
(***************************************************************************)
default_namespaces == {"UI", "shared"}

\* the node n lives in namespace ns ("ns:node")
InNamespace(n, ns) ==
    /\ Len(n) > Len(ns) + 1
    /\ SubSeq(n, 1, Len(ns) + 1) = ns \o ":"

\* cmds.namespace(removeNamespace=ns, mergeNamespaceWithParent=True) on the
\* scene table sc: the nodes of ns move to the root namespace, and the host
\* renames a node whose name is taken
MergedName(sc, n, ns) ==
    IF InNamespace(n, ns)
    THEN LET short == SubSeq(n, Len(ns) + 2, Len(n)) IN
         IF short \in DOMAIN sc.kind THEN short \o "1" ELSE short
    ELSE n

MergeNamespace(sc, ns) ==
    LET old(m) == CHOOSE n \in DOMAIN sc.kind : MergedName(sc, n, ns) = m
        new(n) == IF n = World THEN World ELSE MergedName(sc, n, ns)
        names == {MergedName(sc, n, ns) : n \in DOMAIN sc.kind}
    IN  [kind |-> [m \in names |-> sc.kind[old(m)]],
         parent |-> [m \in names |-> new(sc.parent[old(m)])],
         conn |-> [m \in names |->
                     [i \in 1..Len(sc.conn[old(m)]) |-> new(sc.conn[old(m)][i])]],
         sel |-> {new(n) : n \in sc.sel},
         nss |-> SelectSeq(sc.nss, LAMBDA x : x # ns),
         calls |-> sc.calls \o <<Call("namespace", <<ns>>)>>]

\* a merge whose exception is not caught
MergeFailed_Uncaught(sc, ns) ==
    [sc EXCEPT !.calls = @ \o <<Call("namespace", <<ns>>), Call("raise", <<ns>>)>>]

\* the except clause: the exception is printed and the loop goes on
MergeFailed(sc, ns) ==
    [sc EXCEPT !.calls = @ \o <<Call("namespace", <<ns>>), Call("print", <<ns>>)>>]

\* an exception that leaves the operation ends the list of calls
Raised(cs) == cs # <<>> /\ cs[Len(cs)].cmd = "raise"

\* the for loop of _manage_namespaces over the list nss from index i on;
\* failing is the set of namespaces whose merge raises
RECURSIVE ManageLoop(_, _, _, _)
ManageLoop(sc, nss, i, failing) ==
    IF i > Len(nss) \/ Raised(sc.calls) THEN sc
    ELSE IF nss[i] \in default_namespaces THEN ManageLoop(sc, nss, i + 1, failing)
    ELSE IF nss[i] \in failing THEN ManageLoop(MergeFailed(sc, nss[i]), nss, i + 1, failing)
    ELSE ManageLoop(MergeNamespace(sc, nss[i]), nss, i + 1, failing)

\* the scene as _manage_namespaces finds it
SceneTable ==
    [kind |-> kind, parent |-> parent, conn |-> conn, sel |-> selection,
     nss |-> namespaces, calls |-> <<Call("namespaceInfo", namespaces)>>]

\* _manage_namespaces (the same code in both tools)
ManageNamespaces ==
    \E failing \in SUBSET (Range(namespaces) \ default_namespaces) :
        LET sc == ManageLoop(SceneTable, namespaces, 1, failing) IN
        /\ kind' = sc.kind
        /\ parent' = sc.parent
        /\ conn' = sc.conn
        /\ selection' = sc.sel
        /\ namespaces' = sc.nss
        /\ calls' = sc.calls
        /\ last' = [op |-> "manage_namespaces", arg |-> namespaces,
                    ret |-> IF Raised(sc.calls) THEN "raised" ELSE "None"]
        /\ UNCHANGED <<tool, fields>>

(***************************************************************************)
(* Template construction                                                   *)
(***************************************************************************)
\* what the user can type in the name field of the Create tab
NameInputs == {"", "A"}

\* one cmds.createNode("transform", name=..., parent=...) of a template:
\* <<name, parent>>, the parent given by its position in the list (0: none)
TemplateNodes(rig_name) ==
    << <<rig_name \o "_rig", 0>>,               \* line 282
       <<rig_name \o "_Controls", 1>>,          \* line 285
       <<rig_name \o "_Meshes", 1>>,            \* line 288
       <<rig_name \o "_ExportMeshes", 3>>,      \* line 291
       <<rig_name \o "_bak", 3>>,               \* line 292
       <<rig_name \o "_Skeleton", 1>> >>        \* line 295

\* character_rig_template.CharacterTemplate: the same tree with fixed names
ScriptNodes ==
    << <<"RIG", 0>>, <<"Controls", 1>>, <<"Meshes", 1>>,
       <<"ExportMeshes", 3>>, <<"bak", 3>>, <<"Skeleton", 1>> >>

\* the names the host gives the nodes of a template, in creation order
Created(nodes) == [i \in 1..Len(nodes) |-> NewName(nodes[i][1])]

CreatedParent(nodes, i) ==
    IF nodes[i][2] = 0 THEN World ELSE Created(nodes)[nodes[i][2]]

CreateCalls(nodes) ==
    [i \in 1..Len(nodes) |->
        Call("createNode", <<Created(nodes)[i], CreatedParent(nodes, i)>>)]

\* the scene after the createNode calls of a template
KindAfter(nodes) ==
    [n \in DOMAIN kind \cup Range(Created(nodes)) |->
        IF n \in DOMAIN kind THEN kind[n] ELSE "transform"]

ParentAfter(nodes) ==
    [n \in DOMAIN kind \cup Range(Created(nodes)) |->
        IF n \in DOMAIN kind THEN parent[n]
        ELSE CreatedParent(nodes, CHOOSE i \in 1..Len(nodes) : Created(nodes)[i] = n)]

ConnAfter(nodes) ==
    [n \in DOMAIN kind \cup Range(Created(nodes)) |->
        IF n \in DOMAIN kind THEN conn[n] ELSE <<>>]

\* the model follows a name up to its first renamed copy
CanCreate(nodes) ==
    /\ \A i \in 1..Len(nodes) : ~objExists(Created(nodes)[i])
    /\ \A i, j \in 1..Len(nodes) : i # j => Created(nodes)[i] # Created(nodes)[j]

\* MayaRigHandler._create_character_template, rig_name the text of name_field
CreateCharacterTemplate(rig_name) ==
    /\ tool = "rig"
    /\ IF rig_name = ""
       THEN /\ calls' = <<Call("warning", <<"Please enter a name for the rig.">>)>>
            /\ last' = [op |-> "create_character_template", arg |-> <<rig_name>>,
                        ret |-> "None"]
            /\ UNCHANGED <<tool, scene, selection, fields>>
       ELSE /\ CanCreate(TemplateNodes(rig_name))
            /\ kind' = KindAfter(TemplateNodes(rig_name))
            /\ parent' = ParentAfter(TemplateNodes(rig_name))
            /\ conn' = ConnAfter(TemplateNodes(rig_name))
            \* _refresh_rig_list, then _refresh_create_rig_list
            /\ \E all_transforms \in LsOrders({n \in DOMAIN kind' :
                                               kind'[n] \in {"transform", "joint"}}) :
                   rigs' = FindRigsIn(all_transforms)
            /\ calls' = CreateCalls(TemplateNodes(rig_name))
                        \o RefreshCalls(rigs') \o RefreshCalls(rigs')
                        \o <<Call("information", <<"created">>)>>
            /\ last' = [op |-> "create_character_template", arg |-> <<rig_name>>,
                        ret |-> "None"]
            /\ UNCHANGED <<tool, namespaces, selection, skl_sel, geo_sel, final_sel>>

\* character_rig_template.main: the stand-alone template script
CharacterTemplate ==
    /\ CanCreate(ScriptNodes)
    /\ kind' = KindAfter(ScriptNodes)
    /\ parent' = ParentAfter(ScriptNodes)
    /\ conn' = ConnAfter(ScriptNodes)
    /\ calls' = CreateCalls(ScriptNodes) \o <<Call("ls", <<Created(ScriptNodes)[1]>>)>>
    /\ last' = [op |-> "CharacterTemplate", arg |-> <<>>, ret |-> "None"]
    /\ UNCHANGED <<tool, namespaces, selection, fields>>

(***************************************************************************)
(* Rig asset resolution: MayaRigHandler._process_rig                       *)
(***************************************************************************)
\* the lookup that prefers the name-stripped node
SklLayer_FallbackFirst(rig_name) ==
    IF objExists("_Skeleton") THEN "_Skeleton" ELSE rig_name \o "_Skeleton"

\* lines 540-548: the layer node of the rig, or the name-stripped one
SklLayer(rig_name) ==
    IF objExists(rig_name \o "_Skeleton") THEN rig_name \o "_Skeleton" ELSE "_Skeleton"

GeoLayer(rig_name) ==
    IF objExists(rig_name \o "_Meshes") THEN rig_name \o "_Meshes" ELSE "_Meshes"

\* lines 554-556: root_joint (None or a one-element list) from the layer
RootFromConnections(skl_layer) ==
    LET connections == JointConnections(skl_layer) IN
    IF connections # <<>> THEN <<connections[1]>> ELSE None

\* lines 564-566: root_joint from the joint children of the skeleton group
RootFromChildren(children) ==
    IF children # <<>> THEN <<children[1]>> ELSE None

\* the fallback that takes the first joint of the reversed list as it is
RootFromHierarchy_NoParentCheck(joints) ==
    IF joints = <<>> THEN None ELSE <<Reverse(joints)[1]>>

\* lines 571-578: the first joint without a joint parent, in reversed order
RootFromHierarchy(joints) ==
    LET rev == Reverse(joints)
        free == {i \in 1..Len(rev) : ~HasJointParent(rev[i])}
    IN  IF free = {} THEN None
        ELSE <<rev[CHOOSE i \in free : \A j \in free : i <= j]>>

\* lines 551-578: joints and children are the lists listRelatives returned
RootJoint(rig_name, joints, children) ==
    IF objExists(SklLayer(rig_name))
    THEN RootFromConnections(SklLayer(rig_name))
    ELSE IF objExists(rig_name \o "_Skeleton")
         THEN RootFromChildren(children)
         ELSE RootFromHierarchy(joints)

\* the scene queries of lines 544-578, in the order they are made
SkeletonCalls(rig_name) ==
    <<Call("objExists", <<rig_name \o "_Skeleton">>),
      Call("objExists", <<rig_name \o "_Meshes">>),
      Call("objExists", <<SklLayer(rig_name)>>)>> \o
    (IF objExists(SklLayer(rig_name))
     THEN <<Call("listConnections", <<SklLayer(rig_name), "joint">>)>>
     ELSE <<Call("objExists", <<rig_name \o "_Skeleton">>)>> \o
          (IF objExists(rig_name \o "_Skeleton")
           THEN <<Call("listRelatives", <<rig_name \o "_Skeleton", "children", "joint">>)>>
           ELSE <<Call("listRelatives", <<rig_name, "allDescendents", "joint">>)>> \o
                (IF Descendants(rig_name, "joint") # {}
                 THEN <<Call("listRelatives", <<"parent", "joint">>)>>
                 ELSE <<>>)))

\* the connection list taken whole
GeoFromConnections_KeepFirst(geo_layer) == conn[geo_layer]

\* lines 587-588
GeoFromConnections(geo_layer) ==
    LET connections == conn[geo_layer] IN
    IF Len(connections) > 1 THEN Tail(connections) ELSE <<>>

\* lines 594-607: the node whose mesh descendants are collected
GeoRoot(rig_name) ==
    IF objExists(rig_name \o "_Meshes_ExportMeshes")
    THEN rig_name \o "_Meshes_ExportMeshes"
    ELSE rig_name

\* lines 598-602 and 609-613: the parent of every mesh, in list order
GeoTransforms(potential_geo) ==
    [i \in 1..Len(potential_geo) |-> parent[potential_geo[i]]]

\* list(set(geo_transforms)): the elements once each, in any order
ListOfSet(lst) == Perms(Range(lst))

\* lines 586-615: the lists geo_sel can become; potential_geo is the list
\* of meshes listRelatives returned under GeoRoot
GeoSel(rig_name, potential_geo) ==
    IF objExists(GeoLayer(rig_name))
    THEN {GeoFromConnections(GeoLayer(rig_name))}
    ELSE IF potential_geo # <<>>
         THEN ListOfSet(GeoTransforms(potential_geo))
         ELSE {<<>>}

GeoCalls(rig_name) ==
    <<Call("objExists", <<GeoLayer(rig_name)>>)>> \o
    (IF objExists(GeoLayer(rig_name))
     THEN <<Call("listConnections", <<GeoLayer(rig_name)>>)>>
     ELSE <<Call("objExists", <<rig_name \o "_Meshes_ExportMeshes">>),
            Call("listRelatives", <<GeoRoot(rig_name), "allDescendents", "mesh">>)>>)

\* the final select made for every list, the empty one too
SelectCalls_Always(sel) == <<Call("select", sel)>>

\* lines 618-626: the final select, made only for a non-empty list
SelectCalls(sel) == IF sel # <<>> THEN <<Call("select", sel)>> ELSE <<>>

\* MayaRigHandler._process_rig(rig_name)
ProcessRig(rig_name) ==
    /\ tool = "rig"
    /\ \E joints \in Perms(Descendants(rig_name, "joint")),
          children \in Perms(Children(rig_name \o "_Skeleton", "joint")),
          potential_geo \in Perms(Descendants(GeoRoot(rig_name), "mesh")) :
         \E geo \in GeoSel(rig_name, potential_geo) :
            /\ skl_sel' = RootJoint(rig_name, joints, children)
            /\ geo_sel' = geo
            /\ final_sel' = geo_sel' \o skl_sel'
            /\ selection' = IF final_sel' # <<>> THEN Range(final_sel') ELSE selection
            /\ calls' = SkeletonCalls(rig_name) \o GeoCalls(rig_name)
                        \o SelectCalls(final_sel')
            /\ last' = [op |-> "process_rig", arg |-> <<rig_name>>,
                        ret |-> IF final_sel' # <<>> THEN "True" ELSE "False"]
            /\ UNCHANGED <<tool, scene, rigs>>

(***************************************************************************)
(* Rig asset resolution: AnimOpsExportPrep._process_rig                    *)
(***************************************************************************)
\* lines 64-72: the namespaced layer node, or the one without namespace
AnimSklLayer(rig_name) ==
    IF objExists(rig_name \o ":SKL_lyr") THEN rig_name \o ":SKL_lyr" ELSE "SKL_lyr"

AnimGeoLayer(rig_name) ==
    IF objExists(rig_name \o ":GEO_lyr") THEN rig_name \o ":GEO_lyr" ELSE "GEO_lyr"

\* the connection list taken whole
AnimFromConnections_KeepFirst(layer) == conn[layer]

\* lines 77-78 and 92-93: connections[1:] if len(connections) > 1 else []
AnimFromConnections(layer) ==
    LET connections == conn[layer] IN
    IF Len(connections) > 1 THEN Tail(connections) ELSE <<>>

\* lines 75-87: potential_skeletons is the list listRelatives returned
AnimSklSel(rig_name, potential_skeletons) ==
    IF objExists(AnimSklLayer(rig_name))
    THEN AnimFromConnections(AnimSklLayer(rig_name))
    ELSE potential_skeletons

\* lines 90-104
AnimGeoSel(rig_name, potential_geo) ==
    IF objExists(AnimGeoLayer(rig_name))
    THEN {AnimFromConnections(AnimGeoLayer(rig_name))}
    ELSE IF potential_geo # <<>>
         THEN ListOfSet(GeoTransforms(potential_geo))
         ELSE {<<>>}

AnimSklCalls(rig_name) ==
    <<Call("objExists", <<rig_name \o ":SKL_lyr">>),
      Call("objExists", <<rig_name \o ":GEO_lyr">>),
      Call("objExists", <<AnimSklLayer(rig_name)>>)>> \o
    (IF objExists(AnimSklLayer(rig_name))
     THEN <<Call("select", <<AnimSklLayer(rig_name)>>),
            Call("listConnections", <<AnimSklLayer(rig_name)>>)>>
     ELSE <<Call("listRelatives", <<rig_name, "allDescendents", "joint">>)>>)

AnimGeoCalls(rig_name) ==
    <<Call("objExists", <<AnimGeoLayer(rig_name)>>)>> \o
    (IF objExists(AnimGeoLayer(rig_name))
     THEN <<Call("select", <<AnimGeoLayer(rig_name)>>),
            Call("listConnections", <<AnimGeoLayer(rig_name)>>)>>
     ELSE <<Call("listRelatives", <<rig_name, "allDescendents", "mesh">>)>>)

\* the host selection after the select calls of a list of calls
SelectionAfter(cs, sel) ==
    LET sels == {i \in 1..Len(cs) : cs[i].cmd = "select"} IN
    IF sels = {} THEN sel
    ELSE Range(cs[CHOOSE i \in sels : \A j \in sels : j <= i].arg)

\* AnimOpsExportPrep._process_rig(rig_name)
AnimProcessRig(rig_name) ==
    /\ tool = "anim"
    /\ \E potential_skeletons \in Perms(Descendants(rig_name, "joint")),
          potential_geo \in Perms(Descendants(rig_name, "mesh")) :
         \E geo \in AnimGeoSel(rig_name, potential_geo) :
            /\ skl_sel' = AnimSklSel(rig_name, potential_skeletons)
            /\ geo_sel' = geo
            /\ final_sel' = geo_sel' \o skl_sel'
            /\ calls' = AnimSklCalls(rig_name) \o AnimGeoCalls(rig_name)
                        \o SelectCalls(final_sel')
            /\ selection' = SelectionAfter(calls', selection)
            /\ last' = [op |-> "process_rig", arg |-> <<rig_name>>,
                        ret |-> IF final_sel' # <<>> THEN "True" ELSE "False"]
            /\ UNCHANGED <<tool, scene, rigs>>

(***************************************************************************)
(* The user editing the scene in the host                                  *)
(***************************************************************************)
\* nodes the user can add by hand: name, type, and where it can be put
RigCatalog ==
    { [name |-> "A_rig_Skeleton", kind |-> "transform", parents |-> {"A_rig"}],
      [name |-> "_Skeleton", kind |-> "transform", parents |-> {World}],
      [name |-> "A_rig_Meshes", kind |-> "transform", parents |-> {"A_rig"}],
      [name |-> "_Meshes", kind |-> "transform", parents |-> {World}],
      [name |-> "A_rig_Meshes_ExportMeshes", kind |-> "transform", parents |-> {"A_rig"}],
      [name |-> "rig", kind |-> "joint", parents |-> {World}],
      [name |-> "j1", kind |-> "joint", parents |-> {"A_rig", "rig"}],
      [name |-> "j2", kind |-> "joint", parents |-> {"j1", "A_rig"}],
      [name |-> "j3", kind |-> "joint", parents |-> {"j2"}],
      [name |-> "m1", kind |-> "transform", parents |-> {"A_ExportMeshes", "A_bak"}],
      [name |-> "s1", kind |-> "mesh", parents |-> {"m1"}],
      [name |-> "s2", kind |-> "mesh", parents |-> {"m1"}] }

AnimCatalog ==
    { [name |-> "A_rig", kind |-> "transform", parents |-> {World}],
      [name |-> "A_rig:SKL_lyr", kind |-> "displayLayer", parents |-> {World}],
      [name |-> "SKL_lyr", kind |-> "displayLayer", parents |-> {World}],
      [name |-> "A_rig:GEO_lyr", kind |-> "displayLayer", parents |-> {World}],
      [name |-> "GEO_lyr", kind |-> "displayLayer", parents |-> {World}],
      [name |-> "j1", kind |-> "joint", parents |-> {"A_rig"}],
      [name |-> "j2", kind |-> "joint", parents |-> {"j1"}],
      [name |-> "m1", kind |-> "transform", parents |-> {"A_rig"}],
      [name |-> "s1", kind |-> "mesh", parents |-> {"m1"}],
      [name |-> "s2", kind |-> "mesh", parents |-> {"m1"}] }

Catalog == IF tool = "rig" THEN RigCatalog ELSE AnimCatalog

\* the nodes the user added by hand to a rig (the rig root is not counted),
\* and the connections made by hand
HostNodes == (DOMAIN kind \cap {c.name : c \in Catalog}) \ {"A_rig"}

RECURSIVE SumLen(_)
SumLen(S) == IF S = {} THEN 0
             ELSE LET n == CHOOSE x \in S : TRUE IN Len(conn[n]) + SumLen(S \ {n})

\* the namespace a node name is in, as a list of zero or one namespace
NamespaceOf(n) ==
    LET colons == {i \in 1..Len(n) : SubSeq(n, i, i) = ":"} IN
    IF colons = {} THEN <<>>
    ELSE <<SubSeq(n, 1, (CHOOSE i \in colons : \A j \in colons : i <= j) - 1)>>

\* the user creates a node; a namespaced name creates its namespace
HostCreateNode(c, p) ==
    /\ Cardinality(HostNodes) < MaxHostNodes
    /\ ~objExists(c.name)
    /\ p \in c.parents
    /\ p = World \/ objExists(p)
    /\ kind' = [n \in DOMAIN kind \cup {c.name} |-> IF n = c.name THEN c.kind ELSE kind[n]]
    /\ parent' = [n \in DOMAIN kind \cup {c.name} |-> IF n = c.name THEN p ELSE parent[n]]
    /\ conn' = [n \in DOMAIN kind \cup {c.name} |-> IF n = c.name THEN <<>> ELSE conn[n]]
    /\ namespaces' = namespaces \o
                     SelectSeq(NamespaceOf(c.name), LAMBDA ns : ns \notin Range(namespaces))
    /\ calls' = <<>>
    /\ last' = [op |-> "host", arg |-> <<c.name>>, ret |-> "None"]
    /\ UNCHANGED <<tool, selection, fields>>

\* the nodes that serve as layer nodes, and what the user connects to them
LayerNames == {"A_rig_Skeleton", "_Skeleton", "A_rig_Meshes", "_Meshes",
               "A_rig:SKL_lyr", "SKL_lyr", "A_rig:GEO_lyr", "GEO_lyr"}

Connectable == {"j1", "j2", "m1"}

\* the user connects node n to the layer: listConnections lists it last
HostConnect(layer, n) ==
    /\ SumLen(DOMAIN kind) < MaxConn
    /\ layer \in LayerNames /\ objExists(layer)
    /\ n \in Connectable /\ objExists(n)
    /\ conn' = [conn EXCEPT ![layer] = Append(@, n)]
    /\ calls' = <<>>
    /\ last' = [op |-> "host", arg |-> <<layer, n>>, ret |-> "None"]
    /\ UNCHANGED <<tool, kind, parent, namespaces, selection, fields>>

(***************************************************************************)
(* Processing the rigs selected in the list: _query_rig_for_export and     *)
(* _select_and_compile_all                                                 *)
(***************************************************************************)
\* the results one _process_rig(rig_name) call of the constructed tool can
\* have on the scene: its skl_sel, geo_sel and scene queries
ProcessOutcomes(rig_name) ==
    IF tool = "rig"
    THEN UNION {{[skl |-> RootJoint(rig_name, e[1], e[2]), geo |-> geo,
                  calls |-> SkeletonCalls(rig_name) \o GeoCalls(rig_name)] :
                    geo \in GeoSel(rig_name, e[3])} :
                 e \in Perms(Descendants(rig_name, "joint"))
                       \X Perms(Children(rig_name \o "_Skeleton", "joint"))
                       \X Perms(Descendants(GeoRoot(rig_name), "mesh"))}
    ELSE UNION {{[skl |-> AnimSklSel(rig_name, e[1]), geo |-> geo,
                  calls |-> AnimSklCalls(rig_name) \o AnimGeoCalls(rig_name)] :
                    geo \in AnimGeoSel(rig_name, e[2])} :
                 e \in Perms(Descendants(rig_name, "joint"))
                       \X Perms(Descendants(rig_name, "mesh"))}

\* handler lines 505-508, AnimExporter 136-139: one more rig processed
AfterRig(run, o) ==
    [all |-> run.all \o (o.geo \o o.skl),
     skl |-> o.skl,
     geo |-> o.geo,
     final |-> o.geo \o o.skl,
     calls |-> run.calls \o o.calls \o SelectCalls(o.geo \o o.skl)]

\* the for loop over selected_rigs: every way it can run on the scene
RECURSIVE ProcessLoop(_)
ProcessLoop(selected_rigs) ==
    IF selected_rigs = <<>>
    THEN {[all |-> <<>>, skl |-> skl_sel, geo |-> geo_sel, final |-> final_sel,
           calls |-> <<>>]}
    ELSE UNION {{AfterRig(run, o) :
                    o \in ProcessOutcomes(selected_rigs[Len(selected_rigs)])} :
                 run \in ProcessLoop(SubSeq(selected_rigs, 1, Len(selected_rigs) - 1))}

\* the scene with the selection sel after the calls cs
TableWith(sel, cs) ==
    [kind |-> kind, parent |-> parent, conn |-> conn, sel |-> sel,
     nss |-> namespaces, calls |-> cs]

\* handler lines 510-526, AnimExporter 141-153: the processed rigs are
\* selected, then the namespaces are merged if the checkbox is checked
Compiled(run, clean, failing) ==
    IF run.all # <<>>
    THEN LET selected == TableWith(Range(run.all),
                                   run.calls \o <<Call("select", run.all)>>)
             merged == IF clean
                       THEN ManageLoop([selected EXCEPT !.calls =
                                           @ \o <<Call("namespaceInfo", namespaces)>>],
                                       namespaces, 1, failing)
                       ELSE selected
         IN  [final |-> run.all, skl |-> run.skl, geo |-> run.geo,
              sc |-> IF Raised(merged.calls) THEN merged
                     ELSE [merged EXCEPT !.calls =
                              @ \o <<Call("information", <<"Selected">>)>>]]
    ELSE [final |-> run.final, skl |-> run.skl, geo |-> run.geo,
          sc |-> TableWith(SelectionAfter(run.calls, selection),
                           run.calls \o <<Call("warning", <<"No objects found to select.">>)>>)]

\* handler lines 493-526, AnimExporter 122-153: every way the operation can
\* run for the rigs selected in the list
CompileRuns(selected_rigs, clean, failing) ==
    IF selected_rigs = <<>>
    THEN {[final |-> final_sel, skl |-> skl_sel, geo |-> geo_sel,
           sc |-> TableWith(selection,
                     <<Call("warning", <<"Please select at least one rig from the list.">>)>>)]}
    ELSE {Compiled(run, clean, failing) : run \in ProcessLoop(selected_rigs)}

\* the lists of rigs the user can select in the list widget
RECURSIVE Selections(_)
Selections(S) ==
    {<<>>} \cup UNION {{<<x>> \o p : p \in Selections(S \ {x})} : x \in S}

\* the state after a run r of the operation op
Commit(r, op, arg, ret) ==
    /\ kind' = r.sc.kind
    /\ parent' = r.sc.parent
    /\ conn' = r.sc.conn
    /\ namespaces' = r.sc.nss
    /\ selection' = r.sc.sel
    /\ skl_sel' = r.skl
    /\ geo_sel' = r.geo
    /\ final_sel' = r.final
    /\ calls' = r.sc.calls
    /\ last' = [op |-> op, arg |-> arg,
                ret |-> IF Raised(r.sc.calls) THEN "raised" ELSE ret]
    /\ UNCHANGED <<tool, rigs>>

\* MayaRigHandler._query_rig_for_export, the Process Selected Rigs button
QueryRigForExport(selected_rigs, clean) ==
    /\ tool = "rig"
    /\ \E failing \in SUBSET (Range(namespaces) \ default_namespaces) :
         \E r \in CompileRuns(selected_rigs, clean, failing) :
            Commit(r, "query_rig_for_export", selected_rigs, "None")

\* AnimOpsExportPrep._select_and_compile_all, the same button of that tool
AnimSelectAndCompileAll(selected_rigs, clean) ==
    /\ tool = "anim"
    /\ \E failing \in SUBSET (Range(namespaces) \ default_namespaces) :
         \E r \in CompileRuns(selected_rigs, clean, failing) :
            Commit(r, "select_and_compile_all", selected_rigs, "None")

(***************************************************************************)
(* FBX export: MayaRigHandler._export_rig                                  *)
(***************************************************************************)
\* the mel.eval calls of lines 389-427, in their order
FbxOptions ==
    << <<"FBXExportBakeComplexAnimation", "true">>,
       <<"FBXExportBakeComplexStart", "1">>,
       <<"FBXExportBakeComplexEnd", "60">>,
       <<"FBXExportBakeResampleAnimation", "true">>,
       <<"FBXExportBakeComplexStep", "1">>,
       <<"FBXExportUseSceneName", "false">>,
       <<"FBXExportAnimationOnly", "false">>,
       <<"FBXExportApplyConstantKeyReducer", "false">>,
       <<"FBXExportSmoothingGroups", "true">>,
       <<"FBXExportSmoothMesh", "true">>,
       <<"FBXExportHardEdges", "false">>,
       <<"FBXExportTriangulate", "false">>,
       <<"FBXExportTangents", "true">>,
       <<"FBXExportSkins", "true">>,
       <<"FBXExportInputConnections", "false">>,
       <<"FBXExportConstraints", "false">>,
       <<"FBXExportCameras", "false">>,
       <<"FBXExportLights", "false">>,
       <<"FBXExportEmbeddedTextures", "false">>,
       <<"FBXExportInstances", "false">>,
       <<"FBXExportReferencedAssetsContent", "false">>,
       <<"FBXExportGenerateLog", "true">>,
       <<"FBXExportFileVersion", "FBX202000">>,
       <<"FBXExportInAscii", "false">> >>

FbxOptionCalls == [i \in 1..Len(FbxOptions) |-> Call("mel", FbxOptions[i])]

\* line 432
ExportFileCall == Call("file", <<"C:/dropbox/your_file.fbx", "FBX export", "exportSelected">>)

\* line 386, cmds.parent(world=True) on the host selection: the host raises
\* when nothing is selected; when every selected node is already a child of
\* the world it moves nothing, and either warns or raises
ParentWorld(sc) ==
    LET called == [sc EXCEPT !.calls = @ \o <<Call("parent", <<"world">>)>>]
        raised == [called EXCEPT !.calls = @ \o <<Call("raise", <<"parent">>)>>]
        moved == [called EXCEPT !.parent =
                     [n \in DOMAIN sc.parent |->
                         IF n \in sc.sel THEN World ELSE sc.parent[n]]]
    IN  IF sc.sel = {} THEN {raised}
        ELSE IF \A n \in sc.sel : sc.parent[n] = World THEN {called, raised}
        ELSE {moved}

\* the export of the selection made before the option block
ExportSelected_FileFirst(sc) ==
    IF Raised(sc.calls) THEN sc
    ELSE [sc EXCEPT !.calls = @ \o <<ExportFileCall>> \o FbxOptionCalls]

\* lines 388-437: the option block, then the export of the selection
ExportSelected(sc) ==
    IF Raised(sc.calls) THEN sc
    ELSE [sc EXCEPT !.calls = @ \o FbxOptionCalls \o <<ExportFileCall>>]

\* MayaRigHandler._export_rig, the Export Rig to FBX button
ExportRig(selected_rigs, clean) ==
    /\ tool = "rig"
    /\ \E failing \in SUBSET (Range(namespaces) \ default_namespaces) :
         \E r \in CompileRuns(selected_rigs, clean, failing) :
            \E sc \in ParentWorld(r.sc) :
               Commit([r EXCEPT !.sc = ExportSelected(sc)],
                      "export_rig", selected_rigs, "None")

(***************************************************************************)
(* Rig creation from a template: MayaRigHandler._create_rig                *)
(***************************************************************************)
\* the attributes the constructor and the tabs assign to the dialog
Attributes ==
    {"skl_sel", "geo_sel", "final_sel", "rigs", "tab_widget", "name_field",
     "template_list", "add_controls_cb", "setup_constraints_cb",
     "rig_status_label", "rig_list", "namespace_cb", "status_label"}

\* lines 334-336
FullRigName(text) == IF EndsWith(text, "_rig") THEN text ELSE text \o "_rig"

\* lines 352-372, the body of the try block up to its exception:
\* cmds.select raises on a name that is not in the scene
CreateRigBody(rig_name, found) ==
    RefreshCalls(found) \o RefreshCalls(found)
    \o <<Call("information", <<"Success", rig_name>>), Call("select", <<rig_name>>)>>
    \o (IF objExists(rig_name) THEN <<>> ELSE <<Call("raise", <<rig_name>>)>>)

\* lines 374-377: the except clause
CreateRigCaught(cs) ==
    IF Raised(cs)
    THEN SubSeq(cs, 1, Len(cs) - 1) \o <<Call("critical", <<"Failed to create rig">>)>>
    ELSE cs

\* MayaRigHandler._create_rig, the Create Rig button; selected_items are the
\* selected entries of template_list
CreateRig(selected_items) ==
    /\ tool = "rig"
    /\ IF selected_items = <<>>
       THEN /\ calls' = <<Call("warning", <<"Please select a rig from the list.">>)>>
            /\ last' = [op |-> "create_rig", arg |-> selected_items, ret |-> "None"]
            /\ UNCHANGED <<tool, scene, selection, fields>>
       ELSE IF "rig_name" \notin Attributes
       THEN \* line 327: self.rig_name is an attribute the dialog does not have
            /\ calls' = <<Call("raise", <<"AttributeError", "rig_name">>)>>
            /\ last' = [op |-> "create_rig", arg |-> selected_items, ret |-> "raised"]
            /\ UNCHANGED <<tool, scene, selection, fields>>
       ELSE \E text \in NameInputs :
            IF text = ""
            THEN /\ calls' = <<Call("warning", <<"Please enter a name for the new rig.">>)>>
                 /\ last' = [op |-> "create_rig", arg |-> selected_items, ret |-> "None"]
                 /\ UNCHANGED <<tool, scene, selection, fields>>
            ELSE IF objExists(FullRigName(text))
            THEN /\ calls' = <<Call("warning", <<"already exists", FullRigName(text)>>)>>
                 /\ last' = [op |-> "create_rig", arg |-> selected_items, ret |-> "None"]
                 /\ UNCHANGED <<tool, scene, selection, fields>>
            ELSE /\ \E all_transforms \in LsOrders(Transforms) :
                        rigs' = FindRigsIn(all_transforms)
                 /\ calls' = CreateRigCaught(CreateRigBody(FullRigName(text), rigs'))
                 /\ selection' = SelectionAfter(SubSeq(calls', 1, Len(calls') - 1), selection)
                 /\ last' = [op |-> "create_rig", arg |-> selected_items,
                             ret |-> IF Raised(calls') THEN "raised" ELSE "None"]
                 /\ UNCHANGED <<tool, scene, skl_sel, geo_sel, final_sel>>

(***************************************************************************)
(* The specification of a tool session on a scene                          *)
(***************************************************************************)
\* a new scene, and the tool constructed on it
Init ==
    /\ tool \in {"rig", "anim"}
    /\ kind = <<>>
    /\ parent = <<>>
    /\ conn = <<>>
    /\ namespaces = <<"UI", "shared">>
    /\ selection = {}
    /\ rigs = <<>>
    /\ skl_sel = <<>>
    /\ geo_sel = <<>>
    /\ final_sel = <<>>
    /\ calls = <<>>
    /\ last = [op |-> "init", arg |-> <<>>, ret |-> "None"]

Next ==
    \/ \E c \in Catalog : \E p \in c.parents : HostCreateNode(c, p)
    \/ \E layer \in LayerNames, n \in Connectable : HostConnect(layer, n)
    \/ \E rig_name \in NameInputs : CreateCharacterTemplate(rig_name)
    \/ RefreshRigList
    \/ \E rig_name \in Range(rigs) : ProcessRig(rig_name)
    \/ \E rig_name \in Range(rigs) : AnimProcessRig(rig_name)

Spec == Init /\ [][Next]_vars

(***************************************************************************)
(* Rig discovery runs: scenes of top-level transforms of any name          *)
(***************************************************************************)
NamePool == {"rig", "RIG", "_rig", "A_rig", "A_RIG", "Arig", "Rig", "rig_",
             "A_rig1", "ig", "A_rig_rig"}

\* the user creates a top-level transform
HostCreateTransform(n) ==
    /\ Cardinality(DOMAIN kind) < MaxT
    /\ ~objExists(n)
    /\ kind' = [m \in DOMAIN kind \cup {n} |-> IF m = n THEN "transform" ELSE kind[m]]
    /\ parent' = [m \in DOMAIN kind \cup {n} |-> IF m = n THEN World ELSE parent[m]]
    /\ conn' = [m \in DOMAIN kind \cup {n} |-> IF m = n THEN <<>> ELSE conn[m]]
    /\ calls' = <<>>
    /\ last' = [op |-> "host", arg |-> <<n>>, ret |-> "None"]
    /\ UNCHANGED <<tool, namespaces, selection, fields>>

NextFind ==
    \/ \E n \in NamePool : HostCreateTransform(n)
    \/ CharacterTemplate
    \/ RefreshRigList

SpecFind == Init /\ [][NextFind]_vars

(***************************************************************************)
(* Namespace runs: scenes with namespaces, some of them with a node        *)
(***************************************************************************)
NsPool == {"charA", "charB", "charC"}

NsCatalog ==
    { [name |-> "geo", kind |-> "transform", parents |-> {World}],
      [name |-> "charA:geo", kind |-> "transform", parents |-> {World}] }

\* the user creates a namespace; the host lists it at any place of its list
HostAddNamespace(ns, i) ==
    /\ Cardinality(Range(namespaces) \cap NsPool) < MaxNs
    /\ ns \notin Range(namespaces)
    /\ i \in 0..Len(namespaces)
    /\ namespaces' = SubSeq(namespaces, 1, i) \o <<ns>>
                     \o SubSeq(namespaces, i + 1, Len(namespaces))
    /\ calls' = <<>>
    /\ last' = [op |-> "host", arg |-> <<ns>>, ret |-> "None"]
    /\ UNCHANGED <<tool, kind, parent, conn, selection, fields>>

NextNs ==
    \/ \E ns \in NsPool : \E i \in 0..Len(namespaces) : HostAddNamespace(ns, i)
    \/ \E c \in NsCatalog : \E p \in c.parents :
          /\ Range(NamespaceOf(c.name)) \subseteq Range(namespaces)
          /\ HostCreateNode(c, p)
    \/ ManageNamespaces

SpecNs == Init /\ [][NextNs]_vars

(***************************************************************************)
(* Export sessions: rigs built from the template, layer nodes shared by    *)
(* the rigs, one namespace, and the operations of the tabs                 *)
(***************************************************************************)
\* the names typed in the name field, and the nodes added by hand
ExportNames == {"A", "B"}
ExportNodes == {"_Skeleton", "j1", "m1", "A_rig", "SKL_lyr", "A_rig:SKL_lyr"}

NextExport ==
    \/ \E rig_name \in ExportNames :
          ~objExists(rig_name \o "_rig") /\ CreateCharacterTemplate(rig_name)
    \/ \E c \in Catalog : \E p \in c.parents :
          c.name \in ExportNodes /\ HostCreateNode(c, p)
    \/ \E layer \in LayerNames, n \in Connectable : HostConnect(layer, n)
    \/ HostAddNamespace("charA", Len(namespaces))
    \/ RefreshRigList
    \/ \E selected_items \in {<<>>} \cup {<<r>> : r \in Range(rigs)} :
          CreateRig(selected_items)
    \/ \E selected_rigs \in Selections(Range(rigs)), clean \in BOOLEAN :
          QueryRigForExport(selected_rigs, clean)
    \/ \E selected_rigs \in Selections(Range(rigs)), clean \in BOOLEAN :
          AnimSelectAndCompileAll(selected_rigs, clean)
    \/ \E selected_rigs \in Selections(Range(rigs)), clean \in BOOLEAN :
          ExportRig(selected_rigs, clean)

SpecExport == Init /\ [][NextExport]_vars

(***************************************************************************)
(* Properties                                                              *)
(***************************************************************************)
\* the rig a resolution step was called for
Resolved == last.op = "process_rig"
ResolvedRig == last.arg[1]

\* the name ends with "_rig": it is some prefix followed by "_rig"
EndsInRig(n) == \E k \in 0..Len(n) : n = SubSeq(n, 1, k) \o "_rig"

NamingPredicate(n) == n = "rig" \/ n = "RIG" \/ EndsInRig(n)

\* the list sub keeps the order of the list full
InOrderOf(sub, full) ==
    \A i, j \in 1..Len(sub) : i < j =>
        \E a, b \in 1..Len(full) : a < b /\ full[a] = sub[i] /\ full[b] = sub[j]

\* C1 as stated: in both tools, a transform of the scene is in the result of
\* _find_rigs if and only if it is named "rig" or "RIG" or ends with "_rig".
C1_FindRigsEveryVariant ==
    last.op = "refresh_rig_list" =>
        \A t \in Range(last.arg) : t \in Range(rigs) <=> NamingPredicate(t)

\* C1 amended: MayaRigHandler._find_rigs returns, in scene order, exactly the
\* transforms named "rig" or "RIG" or ending with "_rig"; the
\* AnimOpsExportPrep variant returns exactly those named "rig" or ending
\* with "_rig", and does not match "RIG".
C1_FindRigsPerVariant ==
    last.op = "refresh_rig_list" =>
        /\ Range(rigs) \subseteq Range(last.arg)
        /\ InOrderOf(rigs, last.arg)
        /\ \A t \in Range(last.arg) :
              t \in Range(rigs) <=>
                 IF tool = "rig" THEN NamingPredicate(t)
                 ELSE t = "rig" \/ EndsInRig(t)

C1_Witness ==
    /\ last.op = "refresh_rig_list"
    /\ tool = "anim"
    /\ "RIG" \in Range(last.arg)
    /\ "RIG" \notin Range(rigs)
    /\ rigs # <<>>

\* the namespaces of the merge calls of a list of calls, in order
Attempted(cs) ==
    LET merges == SelectSeq(cs, LAMBDA c : c.cmd = "namespace") IN
    [i \in 1..Len(merges) |-> merges[i].arg[1]]

\* C6: _manage_namespaces attempts a merge for every namespace of the scene
\* that is not "UI" or "shared", and for none of these two; a merge that
\* raises does not stop the later attempts, and no exception leaves the
\* operation.
C6_EveryNamespaceAttempted ==
    last.op = "manage_namespaces" =>
        /\ Attempted(calls) = SelectSeq(last.arg, LAMBDA ns : ns \notin {"UI", "shared"})
        /\ last.ret = "None"

C6_Witness ==
    /\ last.op = "manage_namespaces"
    /\ last.ret = "None"
    /\ \E i, j \in 1..Len(calls) :
          /\ i < j
          /\ calls[i].cmd = "print"
          /\ calls[j].cmd = "namespace"
    /\ \E i, j \in 1..Len(last.arg) : i < j /\ last.arg[i] = "UI" /\ last.arg[j] \in NsPool

\* a connection list without its first entry
DropFirst(lst) == [i \in 1..(IF Len(lst) > 1 THEN Len(lst) - 1 ELSE 0) |-> lst[i + 1]]

\* C2: after resolving a rig, geo_sel holds no node twice, whichever branch
\* produced it.
C2_GeometryHasNoDuplicate ==
    Resolved => NoDup(geo_sel)

\* the descendant joints of the rig that have no joint parent
FreeJoints(rig) == {j \in Descendants(rig, "joint") : ~HasJointParent(j)}

\* C3: with neither <rig>_Skeleton nor _Skeleton in the scene, the skeleton
\* root is the one descendant joint without a joint parent when there is
\* exactly one, in every enumeration order; it is unset when there is none.
C3_FallbackRootIsTheFreeJoint ==
    (/\ Resolved /\ tool = "rig"
     /\ ~objExists(ResolvedRig \o "_Skeleton")
     /\ ~objExists("_Skeleton")) =>
        /\ \A j \in FreeJoints(ResolvedRig) :
              FreeJoints(ResolvedRig) = {j} => skl_sel = <<j>>
        /\ FreeJoints(ResolvedRig) = {} => skl_sel = <<>>

C3_Witness ==
    /\ Resolved /\ tool = "rig"
    /\ ~objExists(ResolvedRig \o "_Skeleton")
    /\ ~objExists("_Skeleton")
    /\ Cardinality(Descendants(ResolvedRig, "joint")) >= 2
    /\ Cardinality(FreeJoints(ResolvedRig)) = 1
    /\ skl_sel # <<>>
    /\ skl_sel[1] \in FreeJoints(ResolvedRig)

\* the createNode calls of a list of calls, as <<name, parent>> pairs
CreatedNodes(cs) ==
    {cs[i].arg : i \in {j \in 1..Len(cs) : cs[j].cmd = "createNode"}}

\* C4: the template operation, given a base name, creates exactly six
\* transforms: the root <base>_rig; Controls, Meshes and Skeleton under the
\* root; ExportMeshes and bak under Meshes.
C4_TemplateTree ==
    (last.op = "create_character_template" /\ last.arg[1] # "") =>
        CreatedNodes(calls) =
            { <<last.arg[1] \o "_rig", World>>,
              <<"Controls", last.arg[1] \o "_rig">>,
              <<"Meshes", last.arg[1] \o "_rig">>,
              <<"ExportMeshes", "Meshes">>,
              <<"bak", "Meshes">>,
              <<"Skeleton", last.arg[1] \o "_rig">> }

\* the rig A_rig as the template operation builds it
TemplateBuilt ==
    /\ {"A_rig", "A_Meshes", "A_ExportMeshes", "A_bak"} \subseteq DOMAIN kind
    /\ parent["A_Meshes"] = "A_rig"
    /\ parent["A_ExportMeshes"] = "A_Meshes"
    /\ parent["A_bak"] = "A_Meshes"

\* C5: for a rig built by the template operation, the resolved geometry
\* holds only parents of meshes under its ExportMeshes group, and the parent
\* of a mesh under its bak group is neither in the geometry nor in the final
\* selection.
C5_OnlyExportMeshesResolved ==
    (Resolved /\ tool = "rig" /\ ResolvedRig = "A_rig" /\ TemplateBuilt) =>
        /\ Range(geo_sel) \subseteq
              {parent[g] : g \in Descendants("A_ExportMeshes", "mesh")}
        /\ \A g \in Descendants("A_bak", "mesh") :
              parent[g] \notin Range(geo_sel) \cup Range(final_sel)

\* the calls of a list of calls that name the node n first
CallsOn(cs, n) == {i \in 1..Len(cs) : cs[i].arg # <<>> /\ cs[i].arg[1] = n}

\* the descendant-joint search among the calls
SearchCalls(cs) ==
    {i \in 1..Len(cs) :
        cs[i].cmd = "listRelatives" /\ "allDescendents" \in Range(cs[i].arg)
        /\ "joint" \in Range(cs[i].arg)}

\* C7: when <rig>_Skeleton exists with a joint connection, the skeleton root
\* is the first of its joint connections and neither _Skeleton nor the
\* descendant joints are consulted; _Skeleton is consulted only when
\* <rig>_Skeleton does not exist.
C7_FirstSkeletonStepWins ==
    (Resolved /\ tool = "rig") =>
        /\ (/\ objExists(ResolvedRig \o "_Skeleton")
            /\ JointConnections(ResolvedRig \o "_Skeleton") # <<>>) =>
               /\ skl_sel = <<JointConnections(ResolvedRig \o "_Skeleton")[1]>>
               /\ CallsOn(calls, "_Skeleton") = {}
               /\ SearchCalls(calls) = {}
        /\ CallsOn(calls, "_Skeleton") # {} => ~objExists(ResolvedRig \o "_Skeleton")

C7_Witness ==
    /\ Resolved /\ tool = "rig"
    /\ objExists(ResolvedRig \o "_Skeleton")
    /\ Len(JointConnections(ResolvedRig \o "_Skeleton")) >= 2
    /\ JointConnections(ResolvedRig \o "_Skeleton")[1] \notin FreeJoints(ResolvedRig)
    /\ FreeJoints(ResolvedRig) # {}
    /\ skl_sel = <<JointConnections(ResolvedRig \o "_Skeleton")[1]>>

\* C8: when the skeleton node is found but has no joint connection, the
\* lookup goes on to the next step, so a rig with a descendant joint that has
\* no joint parent resolves to a skeleton root.
C8_EmptyLayerFallsThrough ==
    (/\ Resolved /\ tool = "rig"
     /\ objExists(SklLayer(ResolvedRig))
     /\ JointConnections(SklLayer(ResolvedRig)) = <<>>
     /\ FreeJoints(ResolvedRig) # {}) =>
        skl_sel # <<>>

\* the rig's own geometry layer node
OwnGeoLayer(rig) == IF tool = "rig" THEN rig \o "_Meshes" ELSE rig \o ":GEO_lyr"

\* C9 as stated: when the rig's geometry layer node exists, the geometry is
\* its connection list without the entry at index 0 and without joints.
C9_LayerGeometryWithoutJoints ==
    (Resolved /\ objExists(OwnGeoLayer(ResolvedRig))) =>
        geo_sel = SelectSeq(DropFirst(conn[OwnGeoLayer(ResolvedRig)]),
                            LAMBDA n : kind[n] # "joint")

\* C9 amended: when the rig's geometry layer node exists, the geometry is its
\* connection list without the entry at index 0 (empty for a list of at most
\* one entry); joints connected to the layer are not filtered out.
C9_LayerGeometryDropsFirst ==
    (Resolved /\ objExists(OwnGeoLayer(ResolvedRig))) =>
        geo_sel = DropFirst(conn[OwnGeoLayer(ResolvedRig)])

C9_Witness ==
    /\ Resolved
    /\ objExists(OwnGeoLayer(ResolvedRig))
    /\ Len(conn[OwnGeoLayer(ResolvedRig)]) >= 2
    /\ \E i \in 1..Len(geo_sel) : kind[geo_sel[i]] = "joint"
    /\ conn[OwnGeoLayer(ResolvedRig)][1] \notin Range(geo_sel)

\* C10 as stated: in the namespace-based tool, with <rig>:SKL_lyr in the
\* scene, the skeleton list is the connection list minus its first entry, and
\* the root selected into the result is the first of the remaining entries.
C10_RootIsFirstRemaining ==
    (Resolved /\ tool = "anim" /\ objExists(ResolvedRig \o ":SKL_lyr")) =>
        /\ skl_sel = DropFirst(conn[ResolvedRig \o ":SKL_lyr"])
        /\ final_sel = geo_sel \o (IF skl_sel = <<>> THEN <<>> ELSE <<skl_sel[1]>>)

\* C10 amended: the skeleton list is the connection list minus its first
\* entry (empty for a list of at most one entry); no root is picked from it:
\* all the remaining entries follow the geometry in the final selection.
C10_AllRemainingSelected ==
    (Resolved /\ tool = "anim" /\ objExists(ResolvedRig \o ":SKL_lyr")) =>
        /\ skl_sel = DropFirst(conn[ResolvedRig \o ":SKL_lyr"])
        /\ final_sel = geo_sel \o skl_sel
        /\ selection = Range(final_sel) \cup
              (IF final_sel = <<>>
               THEN {IF objExists(AnimGeoLayer(ResolvedRig))
                     THEN AnimGeoLayer(ResolvedRig) ELSE ResolvedRig \o ":SKL_lyr"}
               ELSE {})

C10_Witness ==
    /\ Resolved /\ tool = "anim"
    /\ objExists(ResolvedRig \o ":SKL_lyr")
    /\ Len(conn[ResolvedRig \o ":SKL_lyr"]) = 3
    /\ Len(skl_sel) = 2
    /\ skl_sel[1] # skl_sel[2]
    /\ Range(skl_sel) \subseteq selection

\* the last host call of the step is the select of the combined list
FinalSelectIssued == calls # <<>> /\ calls[Len(calls)] = Call("select", final_sel)

\* C11 as stated: the combined list is the geometry followed by at most one
\* node, the skeleton root; an empty list gives False and no final select, a
\* non-empty one is selected as it is and gives True
C11_GeometryThenOneRoot ==
    Resolved =>
        /\ final_sel = geo_sel \o skl_sel
        /\ Len(skl_sel) <= 1
        /\ final_sel = <<>> => last.ret = "False" /\ ~FinalSelectIssued
        /\ final_sel # <<>> =>
              last.ret = "True" /\ FinalSelectIssued /\ selection = Range(final_sel)

\* C11: the combined list is the geometry followed by the skeleton list (one
\* root at most in MayaRigHandler, every entry of skl_sel in
\* AnimOpsExportPrep); an empty list gives False, without an exception and
\* without the final select; a non-empty list is selected exactly and gives
\* True
C11_CombinedResult ==
    Resolved =>
        /\ final_sel = geo_sel \o skl_sel
        /\ tool = "rig" => Len(skl_sel) <= 1
        /\ last.ret # "raised"
        /\ final_sel = <<>> => last.ret = "False" /\ ~FinalSelectIssued
        /\ final_sel # <<>> =>
              last.ret = "True" /\ FinalSelectIssued /\ selection = Range(final_sel)

\* a resolution that found nothing, in a scene where the rig has a layer
C11_Witness ==
    /\ Resolved
    /\ final_sel = <<>>
    /\ last.ret = "False"
    /\ \E c \in Range(calls) : c.cmd = "listConnections"

\* C12: resolving a rig leaves the scene graph and the namespaces as they
\* were; the only select call is the final one, of the combined list, so the
\* host selection is the combined list afterwards, and is untouched when the
\* combined list is empty
C12_OnlyTheFinalSelect ==
    [][last'.op = "process_rig" =>
          /\ scene' = scene
          /\ \A i \in 1..Len(calls') :
                calls'[i].cmd = "select" =>
                    i = Len(calls') /\ calls'[i].arg = final_sel'
          /\ final_sel' = <<>> => selection' = selection
          /\ final_sel' # <<>> => selection' = Range(final_sel')]_vars

\* C13: creating a template under a name whose root {name}_rig exists
\* creates no node and leaves the scene as it was
C13_ExistingRootCreatesNothing ==
    [][(/\ last'.op = "create_character_template"
        /\ last'.arg[1] # ""
        /\ objExists(last'.arg[1] \o "_rig")) =>
          /\ scene' = scene
          /\ \A c \in Range(calls') : c.cmd # "createNode"]_vars

\* an Export Rig to FBX click, and the places of a command in its calls
Exported == last.op = "export_rig"
Places(cmd) == {i \in 1..Len(calls) : calls[i].cmd = cmd}
Before(S, T) == \A i \in S, j \in T : i < j

\* C14 as stated: in the export flow every namespace merge comes before the
\* select of the resolved nodes, the select before the FBX options, and the
\* export call last
C14_MergeBeforeSelect ==
    Exported =>
        /\ Before(Places("namespace"), Places("select"))
        /\ Before(Places("select"), Places("mel"))
        /\ Before(Places("mel"), Places("file"))
        /\ Places("file") \subseteq {Len(calls)}

\* C14: in the export flow the resolved nodes are selected first, then the
\* namespaces are merged (when the option is checked), then the selection is
\* put under the world, then the FBX options are set, and the export call
\* is the last one
C14_SelectBeforeMerge ==
    Exported =>
        /\ Before(Places("select"), Places("namespace"))
        /\ Before(Places("namespace"), Places("parent"))
        /\ Before(Places("parent"), Places("mel"))
        /\ Before(Places("mel"), Places("file"))
        /\ Places("file") \subseteq {Len(calls)}
        /\ Places("file") # {} =>
              [i \in 1..Len(FbxOptions) |-> calls[Len(calls) - Len(FbxOptions) - 1 + i]]
                 = FbxOptionCalls

\* an export of resolved nodes with a namespace merged on the way
C14_Witness ==
    /\ Exported
    /\ final_sel # <<>>
    /\ Places("namespace") # {}
    /\ Places("file") # {}

\* a Create Rig click with a template selected in the list
CreateRigRan == last.op = "create_rig" /\ last.arg # <<>>

\* C15: no exception leaves _create_rig once a template is selected; one
\* raised on the way is shown in an error dialog
C15_NoExceptionLeavesCreateRig ==
    CreateRigRan =>
        /\ last.ret # "raised"
        /\ \A c \in Range(calls) : c.cmd # "raise"

\* C16: a creation with an empty name (Create Template or Create Rig), or a
\* Create Rig under a name that exists, shows a warning dialog and changes
\* nothing: no node created, nothing selected, the rig lists not refreshed.
\* The dialog has no rig name field to fill, so every Create Rig click with
\* a template selected is one with no name entered.
C16_InvalidNameWarnsAndAborts ==
    [][(\/ last'.op = "create_character_template" /\ last'.arg[1] = ""
        \/ last'.op = "create_rig" /\ last'.arg # <<>>) =>
          /\ \E c \in Range(calls') : c.cmd = "warning"
          /\ \A c \in Range(calls') : c.cmd \in {"warning"}
          /\ last'.ret = "None"
          /\ scene' = scene
          /\ selection' = selection
          /\ rigs' = rigs]_vars

\* the rigs selected in the list were processed: Process Selected Rigs of
\* either tool, or the first part of Export Rig to FBX
Processed ==
    /\ last.op \in {"query_rig_for_export", "select_and_compile_all", "export_rig"}
    /\ last.arg # <<>>

\* C17: after the selected rigs are processed the export set final_sel holds
\* no node twice, also when several rigs resolve through a shared fallback
\* layer node
C17_ExportSetHasNoDuplicate == Processed => NoDup(final_sel)

\* the calls that reparent or export
ExportCalls == Places("parent") \cup Places("file")

\* C18: Export Rig to FBX calls the reparent and the file export only after
\* a select of a non-empty resolved list in the same click; with no rig
\* selected in the list, or nothing resolved, it calls neither
C18_ExportOnlyAfterSelection ==
    Exported =>
        \/ ExportCalls = {}
        \/ \E j \in Places("select") : calls[j].arg # <<>> /\ Before({j}, ExportCalls)

\* the layer and group nodes that carry the name of the rig
OwnLayers(rig) ==
    {rig \o "_Skeleton", rig \o "_Meshes", rig \o ":SKL_lyr", rig \o ":GEO_lyr"}
    \cap DOMAIN kind

OwnPayload(n, rig) ==
    \/ IsDescendant(n, rig)
    \/ \E layer \in OwnLayers(rig) : n \in Range(conn[layer])

RigsInScene == {t \in Transforms : FindRigsIn(<<t>>) # <<>>}

\* C19: in a scene with two or more rigs, every node a resolution of the rig
\* R returns is a descendant of R or is connected to a layer or group node
\* that carries the name of R
C19_OnlyOwnPayload ==
    (Resolved /\ Cardinality(RigsInScene) >= 2) =>
        \A n \in Range(final_sel) : OwnPayload(n, ResolvedRig)

====
